---- MODULE Spec2Model ----
(***************************************************************************)
(* Tool-dispatch layer of the four MCP servers of this repository:         *)
(*   relational      src/services/postgres/src/index.ts                    *)
(*   container       src/unnamed/part_000                                  *)
(*   key-value       src/unnamed/part_001                                  *)
(*   version-control src/unnamed/part_002                                  *)
(* A call is looked up by tool name, its raw arguments are checked against *)
(* the tool's inputSchema, and the registered handler runs: a synchronous  *)
(* prefix up to its first await, then a continuation when the awaited      *)
(* backend promise settles.                                                *)
(***************************************************************************)
EXTENDS Integers, Sequences, FiniteSets

(***************************************************************************)
(* Bounds of the model.                                                    *)
(***************************************************************************)
\* number of relational calls that may be in flight together (SpecPool)
MaxInFlight == 2
\* a backend query returns between 0 and MaxRows rows
MaxRows == 1

(***************************************************************************)
(* Untyped argument values. A raw argument object maps every field name to *)
(* a value or to Absent (the key is missing: undefined in the handler).    *)
(* A JavaScript string is a sequence of one-character strings.             *)
(***************************************************************************)
Str(s) == [t |-> "string", v |-> s]
Num(n) == [t |-> "number", v |-> n]
Bool(b) == [t |-> "boolean", v |-> b]
Absent == [t |-> "absent"]
NoDefault == [t |-> "none"]

Present(x) == x.t # "absent"

\* JavaScript truthiness: undefined, "", false and 0 are falsy
Truthy(x) ==
  CASE x.t = "string" -> x.v # <<>>
    [] x.t = "boolean" -> x.v
    [] x.t = "number" -> x.v # 0
    [] OTHER -> FALSE

(***************************************************************************)
(* String.prototype.trim / toLowerCase / startsWith                        *)
(***************************************************************************)
WhiteSpace == {" ", "\t", "\n", "\r"}

UpperToLower ==
  [A |-> "a", B |-> "b", C |-> "c", D |-> "d", E |-> "e", F |-> "f",
   G |-> "g", H |-> "h", I |-> "i", J |-> "j", K |-> "k", L |-> "l",
   M |-> "m", N |-> "n", O |-> "o", P |-> "p", Q |-> "q", R |-> "r",
   S |-> "s", T |-> "t", U |-> "u", V |-> "v", W |-> "w", X |-> "x",
   Y |-> "y", Z |-> "z"]

LowerChar(ch) == IF ch \in DOMAIN UpperToLower THEN UpperToLower[ch] ELSE ch

ToLowerCase(s) == [i \in 1..Len(s) |-> LowerChar(s[i])]

RECURSIVE TrimStart(_)
TrimStart(s) ==
  IF s # <<>> /\ Head(s) \in WhiteSpace THEN TrimStart(Tail(s)) ELSE s

RECURSIVE TrimEnd(_)
TrimEnd(s) ==
  IF s # <<>> /\ s[Len(s)] \in WhiteSpace
  THEN TrimEnd(SubSeq(s, 1, Len(s) - 1))
  ELSE s

Trim(s) == TrimEnd(TrimStart(s))

StartsWith(s, p) == Len(s) >= Len(p) /\ SubSeq(s, 1, Len(p)) = p

Select == <<"s", "e", "l", "e", "c", "t">>

(***************************************************************************)
(* Safety gate of the `query` tool (index.ts:36-39).                       *)
(***************************************************************************)
\* const allowWrite = process.env.PG_ALLOW_WRITE === "true"
AllowWrite(flag) == flag = "true"

\* sql.trim().toLowerCase().startsWith("select")
IsSelectMutNoTrim(sql) == StartsWith(ToLowerCase(sql), Select)
IsSelect(sql) == StartsWith(ToLowerCase(Trim(sql)), Select)

\* !allowWrite && !sql.trim().toLowerCase().startsWith("select")
GateBlocksMutNever(allowWrite, sql) == FALSE
GateBlocks(allowWrite, sql) == ~allowWrite /\ ~IsSelect(sql)

(***************************************************************************)
(* Tool registry and input schemas (the registerTool calls).               *)
(***************************************************************************)
RelationalTools == {"query", "list_tables", "describe_table"}
ContainerTools ==
  {"list_containers", "start_container", "stop_container", "restart_container"}
KeyValueTools == {"get", "set", "del", "list_keys"}
VersionControlTools ==
  {"git_status", "git_log", "git_diff", "git_branch", "git_checkout",
   "git_add", "git_commit", "git_push", "git_pull"}

RegisteredTools ==
  RelationalTools \cup ContainerTools \cup KeyValueTools \cup VersionControlTools

Field(name, kind, required, default) ==
  [fieldName |-> name, kind |-> kind, required |-> required,
   default |-> default, enum |-> {}]

EnumField(name, members) ==
  [fieldName |-> name, kind |-> "enum", required |-> TRUE,
   default |-> NoDefault, enum |-> members]

BranchActions ==
  {<<"l", "i", "s", "t">>, <<"c", "r", "e", "a", "t", "e">>,
   <<"d", "e", "l", "e", "t", "e">>}

Origin == <<"o", "r", "i", "g", "i", "n">>

DefaultTimeoutSeconds == 10
DefaultMaxCount == 10

InputSchema(tool) ==
  CASE tool = "query" -> <<Field("sql", "string", TRUE, NoDefault)>>
    [] tool = "list_tables" -> <<>>
    [] tool = "describe_table" ->
         <<Field("tableName", "string", TRUE, NoDefault)>>
    [] tool = "list_containers" ->
         <<Field("all", "boolean", FALSE, NoDefault)>>
    [] tool = "start_container" ->
         <<Field("idOrName", "string", TRUE, NoDefault)>>
    [] tool \in {"stop_container", "restart_container"} ->
         <<Field("idOrName", "string", TRUE, NoDefault),
           Field("timeoutSeconds", "number", FALSE,
                 Num(DefaultTimeoutSeconds))>>
    [] tool \in {"get", "del"} -> <<Field("key", "string", TRUE, NoDefault)>>
    [] tool = "set" ->
         <<Field("key", "string", TRUE, NoDefault),
           Field("value", "string", TRUE, NoDefault)>>
    [] tool = "list_keys" ->
         <<Field("pattern", "string", FALSE, Str(<<"*">>))>>
    [] tool = "git_status" -> <<>>
    [] tool = "git_log" ->
         <<Field("maxCount", "number", FALSE, Num(DefaultMaxCount))>>
    [] tool = "git_diff" ->
         <<Field("cached", "boolean", FALSE, Bool(FALSE))>>
    [] tool = "git_branch" ->
         <<EnumField("action", BranchActions),
           Field("branchName", "string", FALSE, NoDefault)>>
    [] tool = "git_checkout" ->
         <<Field("branch", "string", TRUE, NoDefault)>>
    [] tool = "git_add" -> <<Field("files", "string", TRUE, NoDefault)>>
    [] tool = "git_commit" -> <<Field("message", "string", TRUE, NoDefault)>>
    [] tool \in {"git_push", "git_pull"} ->
         <<Field("remote", "string", FALSE, Str(Origin)),
           Field("branch", "string", FALSE, NoDefault)>>
    [] OTHER -> <<>>

\* the schemas, with the `value` of `set` declared z.string().optional()
SchemaMutSetValueOptional(tool) ==
  IF tool = "set"
  THEN <<Field("key", "string", TRUE, NoDefault),
         Field("value", "string", FALSE, NoDefault)>>
  ELSE InputSchema(tool)

\* (variant: git_branch declares `action` as any string)
SchemaMutActionAnyString(tool) ==
  IF tool = "git_branch"
  THEN <<Field("action", "string", TRUE, NoDefault),
         Field("branchName", "string", FALSE, NoDefault)>>
  ELSE InputSchema(tool)

\* the schema a tool is registered with
Schema(tool) == InputSchema(tool)

FieldNames(schema) == {schema[i].fieldName : i \in 1..Len(schema)}

(***************************************************************************)
(* Input validation: the schema's parse of a raw argument object, field by *)
(* field in declaration order. Keys the schema does not declare are        *)
(* ignored.                                                                *)
(***************************************************************************)
KindOk(spec, x) ==
  IF spec.kind = "enum"
  THEN x.t = "string" /\ x.v \in spec.enum
  ELSE x.t = spec.kind

\* what is wrong with the field, or "ok"
FieldProblem(spec, raw) ==
  LET x == IF spec.fieldName \in DOMAIN raw THEN raw[spec.fieldName] ELSE Absent
  IN  IF Present(x)
      THEN IF KindOk(spec, x) THEN "ok" ELSE "wrong kind"
      ELSE IF spec.required THEN "missing required field" ELSE "ok"

FieldValue(spec, raw) ==
  LET x == IF spec.fieldName \in DOMAIN raw THEN raw[spec.fieldName] ELSE Absent
  IN  IF Present(x) THEN x
      ELSE IF spec.default.t # "none" THEN spec.default
      ELSE Absent

Validate(schema, raw) ==
  LET bad == {i \in 1..Len(schema) : FieldProblem(schema[i], raw) # "ok"}
  IN  IF bad # {}
      THEN LET i == CHOOSE j \in bad : \A k \in bad : j <= k
           IN  [ok |-> FALSE, field |-> schema[i].fieldName,
                why |-> FieldProblem(schema[i], raw)]
      ELSE [ok |-> TRUE,
            args |-> [f \in FieldNames(schema) |->
                        LET i == CHOOSE j \in 1..Len(schema) :
                                   schema[j].fieldName = f
                        IN  FieldValue(schema[i], raw)]]

(***************************************************************************)
(* Inputs: the tool names and raw argument objects a caller may send.      *)
(***************************************************************************)
UnknownToolName == "drop_database"
ToolNames == RegisteredTools \cup {UnknownToolName}

SqlTexts ==
  { <<"s", "e", "l", "e", "c", "t", " ", "1">>,
    <<" ", " ", "S", "e", "l", "e", "c", "t", " ", "1">>,
    <<"\t", "S", "E", "L", "E", "C", "T", "\n">>,
    <<"D", "R", "O", "P", " ", "T", "A", "B", "L", "E", " ", "x">>,
    <<"s", "e", "l", "e", "c", "t", " ", "1", ";", "D", "R", "O", "P", " ", "x">>,
    <<"s", "e", "l", "e", "c">>,
    <<"x", " ", "s", "e", "l", "e", "c", "t">>,
    <<>> }

\* a value of the wrong runtime type for a field of the given kind
WrongKind(kind) == IF kind = "string" \/ kind = "enum" THEN Num(7) ELSE Str(<<"x">>)

GoodSamples(tool, spec) ==
  CASE spec.fieldName = "sql" -> {Str(s) : s \in SqlTexts}
    [] spec.fieldName = "value" ->
         {Str(<<"v">>), Str(<<"n", "u", "l", "l">>)}
    [] spec.fieldName = "action" ->
         {Str(a) : a \in BranchActions} \cup {Str(<<"r", "e", "n", "a", "m", "e">>)}
    [] spec.fieldName \in {"branchName", "branch"} /\ tool # "git_checkout" ->
         {Str(<<"b">>), Str(<<>>)}
    [] spec.fieldName = "key" -> {Str(<<"k">>)}
    [] spec.fieldName = "pattern" -> {Str(<<"k">>), Str(<<"z">>)}
    [] spec.kind = "string" -> {Str(<<"b">>)}
    [] spec.kind = "number" -> {Num(5)}
    [] spec.kind = "boolean" -> {Bool(TRUE), Bool(FALSE)}
    [] OTHER -> {}

SampleValues(tool, spec) ==
  GoodSamples(tool, spec) \cup {WrongKind(spec.kind), Absent}

\* list_tables is also sent a key its schema does not declare
ExtraField == Field("extra", "string", FALSE, NoDefault)

SentFields(tool) ==
  LET schema == Schema(tool)
  IN  IF tool = "list_tables" THEN <<ExtraField>> ELSE schema

RawArgsOf(tool) ==
  LET sent == SentFields(tool)
      names == FieldNames(sent)
      specOf(n) == sent[CHOOSE j \in 1..Len(sent) : sent[j].fieldName = n]
      all == UNION {SampleValues(tool, specOf(n)) : n \in names}
  IN  {r \in [names -> all] : \A n \in names : r[n] \in SampleValues(tool, specOf(n))}

\* every call a caller sends, as <<tool name, raw arguments>>
CallsTo(tools) == UNION {{<<name, raw>> : raw \in RawArgsOf(name)} : name \in tools}
AllCalls == CallsTo(ToolNames)

\* the calls sent to the relational server while several are in flight:
\* well-formed ones, with a read and a write statement for `query`
PoolSqlTexts ==
  { <<"s", "e", "l", "e", "c", "t", " ", "1">>,
    <<"D", "R", "O", "P", " ", "T", "A", "B", "L", "E", " ", "x">> }

PoolCalls ==
  {in \in CallsTo(RelationalTools) :
     /\ \A n \in DOMAIN in[2] : in[2][n].t = "string"
     /\ in[1] = "query" => in[2]["sql"].v \in PoolSqlTexts
     /\ in[1] = "list_tables" => FALSE}
   \cup {<<"list_tables", [n \in {"extra"} |-> Absent]>>}

\* the calls sent while the servers start up and are interrupted:
\* well-formed ones, one tool or two of each server
LifecycleCalls ==
  {in \in CallsTo({"get", "set", "start_container", "git_status"}) :
     \A n \in DOMAIN in[2] : in[2][n].t = "string"}
  \cup {in \in PoolCalls : in[1] = "query"}

(***************************************************************************)
(* Wire responses.                                                         *)
(* A text is a sequence of string fragments, concatenated in order.        *)
(***************************************************************************)
TextBlock(text) == [type |-> "text", text |-> text]

Success(text) == [content |-> <<TextBlock(text)>>]
Failure(text) == [content |-> <<TextBlock(text)>>, isError |-> TRUE]

IsError(r) == "isError" \in DOMAIN r /\ r.isError = TRUE

\* JSON.stringify(list, null, 2)
Json(list) == <<"JSON">> \o list

(***************************************************************************)
(* Handlers. Each handler is a synchronous prefix, which returns a         *)
(* response at once or awaits one backend operation, and a continuation    *)
(* run when that operation's promise settles.                              *)
(***************************************************************************)
Return(r) == [kind |-> "return", response |-> r]
Await(op, args) == [kind |-> "await", op |-> op, args |-> args]
Throw(e) == [kind |-> "throw", error |-> e]

Resolved(v) == [kind |-> "resolved", value |-> v]
Rejected(e) == [kind |-> "rejected", error |-> e]
Unsettled == [kind |-> "none"]

\* a result list of n elements
Rows(n) == [i \in 1..n |-> "row"]

ListTablesSql == <<"SELECT table_name FROM information_schema.tables">>
DescribeTableSql == <<"SELECT column_name FROM information_schema.columns">>

GateMessage ==
  <<"Error: Only SELECT queries are allowed for safety. Set PG_ALLOW_WRITE=true to enable write queries.">>

\* ---- relational (index.ts) ----
\* (variant: `query` goes to the pool whatever the gate says)
RelationalStartMutNoGate(tool, args, allowWrite) ==
  CASE tool = "query" -> Await("client.query", <<args["sql"]>>)
    [] tool = "list_tables" -> Await("client.query", <<Str(ListTablesSql)>>)
    [] tool = "describe_table" ->
         Await("client.query", <<Str(DescribeTableSql), args["tableName"]>>)

RelationalStart(tool, args, allowWrite) ==
  CASE tool = "query" ->
         IF GateBlocks(allowWrite, args["sql"].v)
         THEN Return(Failure(GateMessage))
         ELSE Await("client.query", <<args["sql"]>>)
    [] tool = "list_tables" -> Await("client.query", <<Str(ListTablesSql)>>)
    [] tool = "describe_table" ->
         Await("client.query", <<Str(DescribeTableSql), args["tableName"]>>)

QueryResumeMutNoIsError(args, s) ==
  IF s.kind = "resolved"
  THEN Return(Success(Json(s.value)))
  ELSE Return(Success(<<"Error executing query: ", s.error>>))

\* (variant: the catch block reports a fixed message)
QueryResumeMutDropsError(args, s) ==
  IF s.kind = "resolved"
  THEN Return(Success(Json(s.value)))
  ELSE Return(Failure(<<"Error executing query">>))

QueryResume(args, s) ==
  IF s.kind = "resolved"
  THEN Return(Success(Json(s.value)))
  ELSE Return(Failure(<<"Error executing query: ", s.error>>))

ListTablesResume(args, s) ==
  IF s.kind = "resolved"
  THEN Return(Success(Json([i \in 1..Len(s.value) |-> "row.table_name"])))
  ELSE Return(Failure(<<"Error listing tables: ", s.error>>))

DescribeTableResumeMutEmptySuccess(args, s) ==
  IF s.kind = "resolved"
  THEN Return(Success(Json(s.value)))
  ELSE Return(Failure(<<"Error describing table: ", s.error>>))

DescribeTableResume(args, s) ==
  IF s.kind = "resolved"
  THEN IF Len(s.value) = 0
       THEN Return(Failure(<<"Table \"">> \o args["tableName"].v
                             \o <<"\" not found.">>))
       ELSE Return(Success(Json(s.value)))
  ELSE Return(Failure(<<"Error describing table: ", s.error>>))

RelationalResume(tool, args, s) ==
  CASE tool = "query" -> QueryResume(args, s)
    [] tool = "list_tables" -> ListTablesResume(args, s)
    [] tool = "describe_table" -> DescribeTableResume(args, s)

\* ---- container (part_000): no handler has a try/catch ----
\* (variant: stop and restart are called without the `t` option)
ContainerStartMutNoTimeout(tool, args) ==
  CASE tool = "list_containers" ->
         Await("docker.listContainers",
               <<IF Present(args["all"]) THEN args["all"] ELSE Bool(FALSE)>>)
    [] tool = "start_container" ->
         Await("container.start", <<args["idOrName"]>>)
    [] tool = "stop_container" ->
         Await("container.stop", <<args["idOrName"], Absent>>)
    [] tool = "restart_container" ->
         Await("container.restart", <<args["idOrName"], Absent>>)

ContainerStart(tool, args) ==
  CASE tool = "list_containers" ->
         Await("docker.listContainers",
               <<IF Present(args["all"]) THEN args["all"] ELSE Bool(FALSE)>>)
    [] tool = "start_container" ->
         Await("container.start", <<args["idOrName"]>>)
    [] tool = "stop_container" ->
         Await("container.stop", <<args["idOrName"], args["timeoutSeconds"]>>)
    [] tool = "restart_container" ->
         Await("container.restart", <<args["idOrName"], args["timeoutSeconds"]>>)

ContainerResume(tool, args, s) ==
  IF s.kind = "rejected"
  THEN Throw(s.error)
  ELSE CASE tool = "list_containers" ->
              Return(Success(Json([i \in 1..Len(s.value) |-> "container"])))
         [] tool = "start_container" ->
              Return(Success(<<"Container \"">> \o args["idOrName"].v
                               \o <<"\" started successfully.">>))
         [] tool = "stop_container" ->
              Return(Success(<<"Container \"">> \o args["idOrName"].v
                               \o <<"\" stopped (timeout=", "${timeoutSeconds}", "s).">>))
         [] tool = "restart_container" ->
              Return(Success(<<"Container \"">> \o args["idOrName"].v
                               \o <<"\" restarted (timeout=", "${timeoutSeconds}", "s).">>))

\* ---- key-value (part_001) ----
NullText == <<"n", "u", "l", "l">>

KeyValueStart(tool, args) ==
  CASE tool = "get" -> Await("redis.get", <<args["key"]>>)
    [] tool = "set" -> Await("redis.set", <<args["key"], args["value"]>>)
    [] tool = "del" -> Await("redis.del", <<args["key"]>>)
    [] tool = "list_keys" -> Await("redis.keys", <<args["pattern"]>>)

\* the text of a `get` response: the stored value, or "null" for no value
GetTextMutEmptyForNull(value) == IF value.t # "null" THEN value.v ELSE <<>>
GetText(value) == IF value.t # "null" THEN value.v ELSE NullText

\* the text of a `del` response, from the number of keys removed
DelTextMutAlwaysOk(removed) == <<"OK">>
DelText(removed) == IF removed = 1 THEN <<"OK">> ELSE <<"Key not found">>

KeyValueResume(tool, args, s) ==
  CASE tool = "get" ->
         IF s.kind = "resolved"
         THEN Return(Success(GetText(s.value)))
         ELSE Return(Failure(<<"Error getting key: ", s.error>>))
    [] tool = "set" ->
         IF s.kind = "resolved"
         THEN Return(Success(<<"OK">>))
         ELSE Return(Failure(<<"Error setting key: ", s.error>>))
    [] tool = "del" ->
         IF s.kind = "resolved"
         THEN Return(Success(DelText(s.value)))
         ELSE Return(Failure(<<"Error deleting key: ", s.error>>))
    [] tool = "list_keys" ->
         IF s.kind = "resolved"
         THEN Return(Success(Json(s.value)))
         ELSE Return(Failure(<<"Error listing keys: ", s.error>>))

\* ---- version control (part_002) ----
ActionList == <<"l", "i", "s", "t">>
ActionCreate == <<"c", "r", "e", "a", "t", "e">>
ActionDelete == <<"d", "e", "l", "e", "t", "e">>

GitBranchStartMutNoNameCheck(args) ==
  LET action == args["action"].v
      branchName == args["branchName"]
  IN  CASE action = ActionList -> Await("git.branch", <<>>)
        [] action = ActionCreate -> Await("git.checkoutLocalBranch", <<branchName>>)
        [] action = ActionDelete -> Await("git.deleteLocalBranch", <<branchName>>)
        [] OTHER -> Return(Failure(<<"Unknown action">>))

\* (variant: the check is `branchName === undefined`)
GitBranchStartMutUndefinedOnly(args) ==
  LET action == args["action"].v
      branchName == args["branchName"]
  IN  CASE action = ActionList -> Await("git.branch", <<>>)
        [] action = ActionCreate ->
             IF ~Present(branchName)
             THEN Return(Failure(<<"Error: branchName is required for create action.">>))
             ELSE Await("git.checkoutLocalBranch", <<branchName>>)
        [] action = ActionDelete ->
             IF ~Present(branchName)
             THEN Return(Failure(<<"Error: branchName is required for delete action.">>))
             ELSE Await("git.deleteLocalBranch", <<branchName>>)
        [] OTHER -> Return(Failure(<<"Unknown action">>))

GitBranchStart(args) ==
  LET action == args["action"].v
      branchName == args["branchName"]
  IN  CASE action = ActionList -> Await("git.branch", <<>>)
        [] action = ActionCreate ->
             IF ~Truthy(branchName)
             THEN Return(Failure(<<"Error: branchName is required for create action.">>))
             ELSE Await("git.checkoutLocalBranch", <<branchName>>)
        [] action = ActionDelete ->
             IF ~Truthy(branchName)
             THEN Return(Failure(<<"Error: branchName is required for delete action.">>))
             ELSE Await("git.deleteLocalBranch", <<branchName>>)
        [] OTHER -> Return(Failure(<<"Unknown action">>))

VersionControlStart(tool, args) ==
  CASE tool = "git_status" -> Await("git.status", <<>>)
    [] tool = "git_log" -> Await("git.log", <<args["maxCount"]>>)
    [] tool = "git_diff" ->
         IF Truthy(args["cached"])
         THEN Await("git.diff", <<Str(<<"--cached">>)>>)
         ELSE Await("git.diff", <<>>)
    [] tool = "git_branch" -> GitBranchStart(args)
    [] tool = "git_checkout" -> Await("git.checkout", <<args["branch"]>>)
    [] tool = "git_add" -> Await("git.add", <<args["files"]>>)
    [] tool = "git_commit" -> Await("git.commit", <<args["message"]>>)
    [] tool = "git_push" ->
         IF Truthy(args["branch"])
         THEN Await("git.push", <<args["remote"], args["branch"]>>)
         ELSE Await("git.push", <<args["remote"]>>)
    [] tool = "git_pull" ->
         IF Truthy(args["branch"])
         THEN Await("git.pull", <<args["remote"], args["branch"]>>)
         ELSE Await("git.pull", <<args["remote"]>>)

GitErrorPrefix(tool) ==
  CASE tool = "git_status" -> "Error getting status: "
    [] tool = "git_log" -> "Error getting log: "
    [] tool = "git_diff" -> "Error getting diff: "
    [] tool = "git_branch" -> "Error with branch operation: "
    [] tool = "git_checkout" -> "Error checking out branch: "
    [] tool = "git_add" -> "Error adding files: "
    [] tool = "git_commit" -> "Error creating commit: "
    [] tool = "git_push" -> "Error pushing: "
    [] tool = "git_pull" -> "Error pulling: "

GitBranchText(args) ==
  LET action == args["action"].v
  IN  CASE action = ActionList -> Json(<<"current", "all">>)
        [] action = ActionCreate ->
             <<"Branch \"">> \o args["branchName"].v \o <<"\" created and checked out.">>
        [] action = ActionDelete ->
             <<"Branch \"">> \o args["branchName"].v \o <<"\" deleted.">>

VersionControlResume(tool, args, s) ==
  IF s.kind = "rejected"
  THEN Return(Failure(<<GitErrorPrefix(tool), s.error>>))
  ELSE CASE tool = "git_status" -> Return(Success(Json(s.value)))
         [] tool = "git_log" -> Return(Success(Json(s.value)))
         [] tool = "git_diff" ->
              Return(Success(IF s.value # <<>> THEN s.value ELSE <<"No changes">>))
         [] tool = "git_branch" -> Return(Success(GitBranchText(args)))
         [] tool = "git_checkout" ->
              Return(Success(<<"Switched to branch \"">> \o args["branch"].v \o <<"\".">>))
         [] tool = "git_add" ->
              Return(Success(<<"Files added: ">> \o args["files"].v))
         [] tool = "git_commit" ->
              Return(Success(<<"Commit created: ">> \o s.value))
         [] tool = "git_push" ->
              Return(Success(<<"Pushed to ">> \o args["remote"].v
                               \o (IF Truthy(args["branch"])
                                   THEN <<"/">> \o args["branch"].v ELSE <<>>)))
         [] tool = "git_pull" ->
              Return(Success(<<"Pulled from ">> \o args["remote"].v
                               \o (IF Truthy(args["branch"])
                                   THEN <<"/">> \o args["branch"].v ELSE <<>>)
                               \o <<"\nFiles changed: ">> \o s.value))

\* ---- all four servers ----
HandlerStart(tool, args, allowWrite) ==
  CASE tool \in RelationalTools -> RelationalStart(tool, args, allowWrite)
    [] tool \in ContainerTools -> ContainerStart(tool, args)
    [] tool \in KeyValueTools -> KeyValueStart(tool, args)
    [] tool \in VersionControlTools -> VersionControlStart(tool, args)

HandlerResume(tool, args, s) ==
  CASE tool \in RelationalTools -> RelationalResume(tool, args, s)
    [] tool \in ContainerTools -> ContainerResume(tool, args, s)
    [] tool \in KeyValueTools -> KeyValueResume(tool, args, s)
    [] tool \in VersionControlTools -> VersionControlResume(tool, args, s)

(***************************************************************************)
(* Backends. A backend operation resolves with one of the values below or  *)
(* rejects with an error. The key-value store answers from its contents;   *)
(* the other backends answer with any result of the right shape.           *)
(***************************************************************************)
KeySpace == {<<"k">>}
Null == [t |-> "null"]

BackendErrors == {"ECONNREFUSED"}

Lookup(st, k) == IF k \in DOMAIN st THEN st[k] ELSE Null

\* glob match of redis KEYS, for the patterns sent: "*" or a literal
Matches(pattern, k) == pattern = <<"*">> \/ pattern = k

RECURSIVE Flatten(_)
Flatten(keys) ==
  IF keys = {} THEN <<>>
  ELSE LET k == CHOOSE x \in keys : TRUE IN k \o Flatten(keys \ {k})

BackendValues(op, args, st) ==
  CASE op = "client.query" -> {Rows(n) : n \in 0..MaxRows}
    [] op = "docker.listContainers" -> {Rows(n) : n \in 0..MaxRows}
    [] op \in {"container.start", "container.stop", "container.restart"} -> {<<>>}
    [] op = "redis.get" -> {Lookup(st, args[1].v)}
    [] op = "redis.set" -> {<<"OK">>}
    [] op = "redis.del" -> {IF Lookup(st, args[1].v).t # "null" THEN 1 ELSE 0}
    [] op = "redis.keys" ->
         {Flatten({k \in DOMAIN st : st[k].t # "null" /\ Matches(args[1].v, k)})}
    [] op = "git.status" -> {<<"status">>}
    [] op = "git.log" -> {Rows(n) : n \in 0..MaxRows}
    [] op = "git.diff" -> {<<>>, <<"diff">>}
    [] op = "git.branch" -> {<<"branches">>}
    [] op = "git.commit" -> {<<"commit">>}
    [] op = "git.pull" -> {<<"files">>}
    [] OTHER -> {<<>>}

StoreAfter(op, args, st) ==
  CASE op = "redis.set" /\ args[1].v \in DOMAIN st ->
         [st EXCEPT ![args[1].v] = args[2]]
    [] op = "redis.del" /\ args[1].v \in DOMAIN st ->
         [st EXCEPT ![args[1].v] = Null]
    [] OTHER -> st

(***************************************************************************)
(* The pool helper `query` (index.ts:16-23) once client.query has settled: *)
(* the finally block releases the client whatever the settlement, and the  *)
(* settlement is passed on to the caller.                                  *)
(***************************************************************************)
ReleasesClientMutOnSuccessOnly(s) == s.kind = "resolved"
ReleasesClient(s) == TRUE

(***************************************************************************)
(* Dispatch of one call: lookup by name, validation against the schema,    *)
(* then the handler's synchronous prefix.                                  *)
(***************************************************************************)
UnknownToolMessage(name) == <<"Tool ", name, " not found">>
ValidationMessage(name, v) ==
  <<"Invalid arguments for tool ", name, ": ", v.field, ": ", v.why>>

Dispatch(name, raw, allowWrite) ==
  IF name \notin RegisteredTools
  THEN Return(Failure(UnknownToolMessage(name)))
  ELSE LET v == Validate(Schema(name), raw)
       IN  IF ~v.ok
           THEN Return(Failure(ValidationMessage(name, v)))
           ELSE HandlerStart(name, v.args, allowWrite)

(***************************************************************************)
(* State.                                                                  *)
(***************************************************************************)
Slots == 1..MaxInFlight

\* values of the PG_ALLOW_WRITE environment variable
Unset == "undefined"
EnvValues == {"true", "1", Unset}

VARIABLES
  env,        \* process.env.PG_ALLOW_WRITE now
  startEnv,   \* process.env.PG_ALLOW_WRITE when the process started
  pc,         \* per slot: "Idle", "Connecting", "Querying" or "Awaiting"
  call,       \* per slot: the current (or last) call
  allowWrite, \* per slot: the query handler's local allowWrite
  result,     \* per slot: how the call's backend promise settled
  responses,  \* per slot: the responses returned for the call
  invoked,    \* per slot: the backend operations invoked by the call
  events,     \* per slot: what the call did, in order
  checkedOut, \* pool: number of clients checked out
  store,      \* the key-value store's contents
  redis,      \* the key-value client: "connecting", "ready", "failed", "closed"
  exit,       \* which server process has exited, and how
  inFlight    \* the slots whose call awaits its backend, in order of arrival

vars ==
  <<env, startEnv, pc, call, allowWrite, result, responses, invoked, events,
    checkedOut, store, redis, exit, inFlight>>

\* left alone by every tool call
process == <<redis, exit>>

NoCall == [tool |-> "", raw |-> <<>>, valid |-> FALSE, args |-> <<>>]

\* no server has exited; a server has, by process.exit(0), process.exit(1)
\* or the signal
Running == [server |-> "", how |-> "running"]
Exited(server, how) == [server |-> server, how |-> how]

\* the servers once constructed: no call received, the store empty
Constructed ==
  /\ env \in EnvValues
  /\ startEnv = env
  /\ pc = [c \in Slots |-> "Idle"]
  /\ call = [c \in Slots |-> NoCall]
  /\ allowWrite = [c \in Slots |-> FALSE]
  /\ result = [c \in Slots |-> Unsettled]
  /\ responses = [c \in Slots |-> <<>>]
  /\ invoked = [c \in Slots |-> <<>>]
  /\ events = [c \in Slots |-> <<>>]
  /\ checkedOut = 0
  /\ store = [k \in KeySpace |-> Null]
  /\ exit = Running
  /\ inFlight = <<>>

\* ... and the key-value client's connection has been opened
Init == Constructed /\ redis = "ready"

\* the sequence without its entries equal to x
Without(seq, x) == SelectSeq(seq, LAMBDA y : y # x)

\* the operation the call in slot c awaits
Pending(c) == HandlerStart(call[c].tool, call[c].args, allowWrite[c])

\* the handler's continuation returns a response, or throws out of the handler
Finish(c, outcome, before) ==
  /\ pc' = [pc EXCEPT ![c] = "Idle"]
  /\ responses' =
       [responses EXCEPT ![c] =
          IF outcome.kind = "return" THEN Append(@, outcome.response) ELSE @]
  /\ events' =
       [events EXCEPT ![c] =
          @ \o before \o
          <<IF outcome.kind = "return" THEN "respond" ELSE "fault">>]
  /\ inFlight' = Without(inFlight, c)

(***************************************************************************)
(* Actions.                                                                *)
(***************************************************************************)
\* a call arrives: dispatch, and the handler runs up to its first await
CallTool(c, name, raw) ==
  /\ pc[c] = "Idle"
  /\ LET aw == AllowWrite(env)
         step == Dispatch(name, raw, aw)
         known == name \in RegisteredTools
         v == Validate(Schema(name), raw)
         valid == known /\ v.ok
     IN  /\ call' = [call EXCEPT ![c] =
                       [tool |-> name, raw |-> raw, valid |-> valid,
                        args |-> IF valid THEN v.args ELSE <<>>]]
         /\ allowWrite' = [allowWrite EXCEPT ![c] = valid /\ name = "query" /\ aw]
         /\ result' = [result EXCEPT ![c] = Unsettled]
         /\ pc' = [pc EXCEPT ![c] =
                     IF step.kind # "await" THEN "Idle"
                     ELSE IF name \in RelationalTools THEN "Connecting"
                     ELSE "Awaiting"]
         /\ responses' = [responses EXCEPT ![c] =
                            IF step.kind = "return" THEN <<step.response>> ELSE <<>>]
         /\ invoked' = [invoked EXCEPT ![c] =
                          IF step.kind = "await" /\ name \notin RelationalTools
                          THEN <<[op |-> step.op, args |-> step.args]>>
                          ELSE <<>>]
         /\ events' = [events EXCEPT ![c] =
                         CASE step.kind = "return" -> <<"respond">>
                           [] step.kind = "await" /\ name \notin RelationalTools ->
                                <<"invoke">>
                           [] OTHER -> <<>>]
         /\ inFlight' = IF step.kind = "await" THEN Append(inFlight, c) ELSE inFlight
  /\ UNCHANGED <<env, startEnv, checkedOut, store, process>>

\* pool.connect() resolves: the client is checked out and client.query runs
ConnectResolves(c) ==
  /\ pc[c] = "Connecting"
  /\ pc' = [pc EXCEPT ![c] = "Querying"]
  /\ checkedOut' = checkedOut + 1
  /\ invoked' = [invoked EXCEPT ![c] =
                   Append(@, [op |-> Pending(c).op, args |-> Pending(c).args])]
  /\ events' = [events EXCEPT ![c] = @ \o <<"checkout", "invoke">>]
  /\ UNCHANGED <<env, startEnv, call, allowWrite, result, responses, store,
                 process, inFlight>>

\* pool.connect() rejects: query() rejects before its try block
ConnectRejects(c, e) ==
  /\ pc[c] = "Connecting"
  /\ result' = [result EXCEPT ![c] = Rejected(e)]
  /\ Finish(c, HandlerResume(call[c].tool, call[c].args, Rejected(e)), <<>>)
  /\ UNCHANGED <<env, startEnv, call, allowWrite, invoked, checkedOut, store,
                 process>>

\* client.query settles: finally releases the client, the handler continues
QuerySettles(c, s) ==
  /\ pc[c] = "Querying"
  /\ result' = [result EXCEPT ![c] = s]
  /\ checkedOut' = IF ReleasesClient(s) THEN checkedOut - 1 ELSE checkedOut
  /\ Finish(c, HandlerResume(call[c].tool, call[c].args, s),
            IF ReleasesClient(s) THEN <<"release">> ELSE <<>>)
  /\ UNCHANGED <<env, startEnv, call, allowWrite, invoked, store, process>>

QueryResolves(c) ==
  \E rows \in BackendValues("client.query", Pending(c).args, store) :
    QuerySettles(c, Resolved(rows))

QueryRejects(c) == \E e \in BackendErrors : QuerySettles(c, Rejected(e))

\* the awaited container, key-value or version-control operation resolves
BackendResolves(c) ==
  /\ pc[c] = "Awaiting"
  /\ call[c].tool \in KeyValueTools => redis = "ready"
  /\ LET op == invoked[c][1].op
         args == invoked[c][1].args
     IN  \E v \in BackendValues(op, args, store) :
           /\ result' = [result EXCEPT ![c] = Resolved(v)]
           /\ store' = StoreAfter(op, args, store)
           /\ Finish(c, HandlerResume(call[c].tool, call[c].args, Resolved(v)), <<>>)
  /\ UNCHANGED <<env, startEnv, call, allowWrite, invoked, checkedOut, process>>

\* ... or rejects
BackendRejects(c) ==
  /\ pc[c] = "Awaiting"
  /\ \E e \in BackendErrors :
       /\ result' = [result EXCEPT ![c] = Rejected(e)]
       /\ Finish(c, HandlerResume(call[c].tool, call[c].args, Rejected(e)), <<>>)
  /\ UNCHANGED <<env, startEnv, call, allowWrite, invoked, checkedOut, store,
                 process>>

\* the environment variable is assigned another value while the server runs
SetEnv ==
  /\ \E v \in EnvValues \ {env} : env' = v
  /\ UNCHANGED <<startEnv, pc, call, allowWrite, result, responses, invoked,
                 events, checkedOut, store, process, inFlight>>

(***************************************************************************)
(* Spec: the four servers, each serving one call at a time.                *)
(***************************************************************************)
Next ==
  \/ \E in \in AllCalls : CallTool(1, in[1], in[2])
  \/ ConnectResolves(1)
  \/ \E e \in BackendErrors : ConnectRejects(1, e)
  \/ QueryResolves(1)
  \/ QueryRejects(1)
  \/ BackendResolves(1)
  \/ BackendRejects(1)
  \/ SetEnv

Spec == Init /\ [][Next]_vars

(***************************************************************************)
(* SpecPool: the relational server with up to MaxInFlight calls in flight, *)
(* each with a pool client of its own.                                     *)
(***************************************************************************)
NextPool ==
  \E c \in Slots :
    \/ \E in \in PoolCalls : CallTool(c, in[1], in[2])
    \/ ConnectResolves(c)
    \/ \E e \in BackendErrors : ConnectRejects(c, e)
    \/ QueryResolves(c)
    \/ QueryRejects(c)

SpecPool == Init /\ [][NextPool]_vars

(***************************************************************************)
(* Process start and end. Each server is a process of its own; the model   *)
(* follows them up to the first exit.                                      *)
(***************************************************************************)
Servers == {"relational", "container", "key-value", "version-control"}

ExitOk == "process.exit(0)"
ExitFailure == "process.exit(1)"
ExitSigint == "SIGINT"

\* redis.connect() resolves
RedisConnectResolves ==
  /\ redis = "connecting"
  /\ redis' = "ready"
  /\ UNCHANGED <<env, startEnv, pc, call, allowWrite, result, responses,
                 invoked, events, checkedOut, store, exit, inFlight>>

\* redis.connect() rejects: the catch callback logs and calls process.exit(1)
RedisConnectRejects ==
  /\ redis = "connecting"
  /\ redis' = "failed"
  /\ exit' = Exited("key-value", ExitFailure)
  /\ UNCHANGED <<env, startEnv, pc, call, allowWrite, result, responses,
                 invoked, events, checkedOut, store, inFlight>>

\* what a server process does on SIGINT: the key-value server's handler
\* quits its client and exits with 0; the other servers install no handler
\* and die of the signal as they are
HasSigintHandler(server) == server = "key-value"

Interrupt(server) ==
  /\ server = "key-value" => redis = "ready"
  /\ IF HasSigintHandler(server)
     THEN redis' = "closed" /\ exit' = Exited(server, ExitOk)
     ELSE redis' = redis /\ exit' = Exited(server, ExitSigint)
  /\ UNCHANGED <<env, startEnv, pc, call, allowWrite, result, responses,
                 invoked, events, checkedOut, store, inFlight>>

(***************************************************************************)
(* SpecLifecycle: the servers from construction, the key-value client      *)
(* still connecting, until one of them exits.                              *)
(***************************************************************************)
InitLifecycle == Constructed /\ redis = "connecting"

NextLifecycle ==
  \/ exit = Running /\ \E in \in LifecycleCalls : CallTool(1, in[1], in[2])
  \/ exit = Running /\ ConnectResolves(1)
  \/ exit = Running /\ \E e \in BackendErrors : ConnectRejects(1, e)
  \/ exit = Running /\ QueryResolves(1)
  \/ exit = Running /\ QueryRejects(1)
  \/ exit = Running /\ BackendResolves(1)
  \/ exit = Running /\ BackendRejects(1)
  \/ exit = Running /\ RedisConnectResolves
  \/ exit = Running /\ RedisConnectRejects
  \/ exit = Running /\ \E server \in Servers : Interrupt(server)

SpecLifecycle == InitLifecycle /\ [][NextLifecycle]_vars

(***************************************************************************)
(* Properties.                                                             *)
(***************************************************************************)
Range(seq) == {seq[i] : i \in DOMAIN seq}
Count(seq, x) == Cardinality({i \in DOMAIN seq : seq[i] = x})

\* the slot holds a call that has run to its end
Completed(c) == pc[c] = "Idle" /\ call[c].tool # ""

\* the call in slot c is a well-formed call of the tool
ValidCall(c, tool) == call[c].tool = tool /\ call[c].valid

\* the command text, trimmed and lower-cased, begins with `select`
BeginsWithSelect(text) ==
  LET t == ToLowerCase(Trim(text))
  IN  Len(t) >= 6 /\ \A i \in 1..6 : t[i] = Select[i]

ResponseText(r) == r.content[1].text

DropTableX == <<"D", "R", "O", "P", " ", "T", "A", "B", "L", "E", " ", "x">>
SpacedSelect1 == <<" ", " ", "S", "e", "l", "e", "c", "t", " ", "1">>

\* C1: a `query` call made with the write policy false whose text does not
\* begin with `select` (trimmed, lower-cased) ends in the safety Failure,
\* with no backend operation invoked and no pool client checked out.
C1_BlockedQueryTouchesNothing ==
  \A c \in Slots :
    (ValidCall(c, "query") /\ ~allowWrite[c]
       /\ ~BeginsWithSelect(call[c].args["sql"].v))
    => /\ pc[c] = "Idle"
       /\ Len(responses[c]) = 1
       /\ IsError(responses[c][1])
       /\ ResponseText(responses[c][1]) = GateMessage
       /\ invoked[c] = <<>>
       /\ events[c] = <<"respond">>
       /\ result[c].kind = "none"

C1_Witness ==
  \E c \in Slots :
    /\ ValidCall(c, "query") /\ ~allowWrite[c]
    /\ call[c].args["sql"].v = DropTableX
    /\ Len(responses[c]) = 1 /\ IsError(responses[c][1])
    /\ checkedOut = 0

\* the handler of the call in slot c went past the gate, to query(sql)
PastGate(c) == pc[c] \in {"Connecting", "Querying"} \/ result[c].kind # "none"

\* C2: a `query` call passes the gate if and only if the write policy is true
\* or its text, trimmed and lower-cased, begins with `select`; a call that
\* does not pass is answered with the safety Failure.
C2_GatePassesIff ==
  \A c \in Slots :
    ValidCall(c, "query")
    => /\ PastGate(c) <=> (allowWrite[c] \/ BeginsWithSelect(call[c].args["sql"].v))
       /\ ~PastGate(c) => /\ Len(responses[c]) = 1
                          /\ ResponseText(responses[c][1]) = GateMessage

C2_Witness ==
  \E c \in Slots :
    /\ ValidCall(c, "query") /\ ~allowWrite[c]
    /\ call[c].args["sql"].v = SpacedSelect1
    /\ Len(invoked[c]) = 1
    /\ invoked[c][1] = [op |-> "client.query", args |-> <<Str(SpacedSelect1)>>]

\* C3: in every interleaving of relational calls, a client that was checked
\* out is released exactly once, whether its query resolved or rejected, and
\* before the call's response; a finished call has as many releases as
\* executions, and the pool holds exactly the clients of the calls whose
\* query is running.
C3_ReleasedExactlyOnce ==
  /\ \A c \in Slots :
       LET ev == events[c]
       IN  /\ Count(ev, "checkout") <= 1
           /\ Count(ev, "release") <= Count(ev, "checkout")
           /\ pc[c] = "Querying" <=> Count(ev, "checkout") = 1 /\ Count(ev, "release") = 0
           /\ pc[c] = "Idle" => /\ Count(ev, "release") = Count(ev, "checkout")
                                /\ Count(ev, "release") = Len(invoked[c])
           /\ \A i, j \in DOMAIN ev :
                ev[i] = "release" /\ ev[j] = "respond" => i < j
  /\ checkedOut = Cardinality({c \in Slots : pc[c] = "Querying"})
  /\ (\A c \in Slots : pc[c] = "Idle") => checkedOut = 0

C3_Witness ==
  \E c, d \in Slots :
    /\ pc[c] = "Querying"
    /\ pc[d] = "Idle" /\ result[d].kind = "rejected"
    /\ events[d] = <<"checkout", "invoke", "release", "respond">>

\* C4: when the backend operation of a call rejects, the handler returns a
\* Failure response carrying the error; nothing is thrown out of the handler.
C4_BackendFailureIsCaught ==
  \A c \in Slots :
    (Completed(c) /\ result[c].kind = "rejected")
    => /\ "fault" \notin Range(events[c])
       /\ Len(responses[c]) = 1
       /\ IsError(responses[c][1])
       /\ result[c].error \in Range(ResponseText(responses[c][1]))

\* C5: a call that has run to its end was answered with exactly one response.
C5_ExactlyOneOutcome ==
  \A c \in Slots : Completed(c) => Len(responses[c]) = 1

\* the fields the tools require
RequiredFields(tool) ==
  CASE tool = "query" -> {"sql"}
    [] tool = "describe_table" -> {"tableName"}
    [] tool \in {"start_container", "stop_container", "restart_container"} ->
         {"idOrName"}
    [] tool \in {"get", "del"} -> {"key"}
    [] tool = "set" -> {"key", "value"}
    [] tool = "git_branch" -> {"action"}
    [] tool = "git_checkout" -> {"branch"}
    [] tool = "git_add" -> {"files"}
    [] tool = "git_commit" -> {"message"}
    [] OTHER -> {}

LacksRequired(c) ==
  \E f \in RequiredFields(call[c].tool) : ~Present(call[c].raw[f])

\* C6: a call of a registered tool whose raw arguments lack a required field
\* is answered with a validation Failure, and no backend operation is invoked
\* and no pool client checked out for it.
C6_MissingFieldStopsCall ==
  \A c \in Slots :
    (call[c].tool \in RegisteredTools /\ LacksRequired(c))
    => /\ pc[c] = "Idle"
       /\ ~call[c].valid
       /\ Len(responses[c]) = 1
       /\ IsError(responses[c][1])
       /\ ResponseText(responses[c][1])[1] = "Invalid arguments for tool "
       /\ invoked[c] = <<>>
       /\ events[c] = <<"respond">>

C6_Witness ==
  \E c \in Slots :
    /\ call[c].tool = "set"
    /\ Present(call[c].raw["key"]) /\ ~Present(call[c].raw["value"])
    /\ Len(responses[c]) = 1 /\ IsError(responses[c][1])
    /\ store = [k \in KeySpace |-> Null]

\* the call in slot c failed: validation, safety, not found, backend failure
CallFailed(c) ==
  \/ ~call[c].valid
  \/ ValidCall(c, "query") /\ ~allowWrite[c]
       /\ ~BeginsWithSelect(call[c].args["sql"].v)
  \/ ValidCall(c, "git_branch")
       /\ call[c].args["action"].v \in {ActionCreate, ActionDelete}
       /\ ~Truthy(call[c].args["branchName"])
  \/ ValidCall(c, "describe_table") /\ result[c].kind = "resolved"
       /\ Len(result[c].value) = 0
  \/ result[c].kind = "rejected"

\* C7: every response is made of text blocks only; one with isError true has
\* exactly one block; isError is true exactly when the call failed.
C7_TwoResponseShapes ==
  \A c \in Slots : \A i \in DOMAIN responses[c] :
    LET r == responses[c][i]
    IN  /\ DOMAIN r \subseteq {"content", "isError"}
        /\ Len(r.content) >= 1
        /\ \A b \in DOMAIN r.content :
             /\ DOMAIN r.content[b] = {"type", "text"}
             /\ r.content[b].type = "text"
        /\ IsError(r) => Len(r.content) = 1
        /\ IsError(r) <=> CallFailed(c)

C7_Witness ==
  \E c \in Slots :
    /\ ValidCall(c, "query")
    /\ result[c].kind = "rejected"
    /\ Len(invoked[c]) = 1
    /\ Len(responses[c]) = 1 /\ IsError(responses[c][1])

\* C8: the gate of every `query` call decides with the value the write flag
\* had when the process started.
C8_PolicyReadOnceAtStartup ==
  \A c \in Slots :
    ValidCall(c, "query")
    => (PastGate(c) <=> (startEnv = "true" \/ BeginsWithSelect(call[c].args["sql"].v)))

\* the backend operation of a git_branch action
BranchOperation(action) ==
  CASE action = ActionList -> "git.branch"
    [] action = ActionCreate -> "git.checkoutLocalBranch"
    [] action = ActionDelete -> "git.deleteLocalBranch"

\* C9: git_branch with action create or delete and no branchName fails with
\* the "branchName is required" Failure and invokes no backend operation;
\* action list proceeds without a branchName; an action invokes no backend
\* operation but its own, and at most once.
C9_BranchNameRequired ==
  \A c \in Slots :
    ValidCall(c, "git_branch")
    => LET action == call[c].args["action"].v
           named == Present(call[c].args["branchName"])
       IN  /\ (action \in {ActionCreate, ActionDelete} /\ ~named)
               => /\ pc[c] = "Idle"
                  /\ invoked[c] = <<>>
                  /\ Len(responses[c]) = 1
                  /\ IsError(responses[c][1])
                  /\ ResponseText(responses[c][1]) \in
                       {<<"Error: branchName is required for create action.">>,
                        <<"Error: branchName is required for delete action.">>}
                  /\ result[c].kind = "none"
           /\ action = ActionList
               => invoked[c] = <<[op |-> "git.branch", args |-> <<>>]>>
           /\ Len(invoked[c]) <= 1
           /\ \A i \in DOMAIN invoked[c] : invoked[c][i].op = BranchOperation(action)

C9_Witness ==
  \E c \in Slots :
    /\ ValidCall(c, "git_branch")
    /\ call[c].args["action"].v = ActionCreate
    /\ ~Present(call[c].args["branchName"])
    /\ Len(responses[c]) = 1 /\ IsError(responses[c][1])

\* C10: describe_table answers a query that returned zero rows with a
\* "not found" Failure, and answers with a Success only when the query
\* returned at least one row: never a Success with an empty list.
C10_EmptyTableIsNotFound ==
  \A c \in Slots :
    (ValidCall(c, "describe_table") /\ Completed(c))
    => /\ Len(responses[c]) = 1
       /\ (result[c].kind = "resolved" /\ Len(result[c].value) = 0)
           => /\ IsError(responses[c][1])
              /\ "\" not found." \in Range(ResponseText(responses[c][1]))
       /\ ~IsError(responses[c][1])
           => /\ result[c].kind = "resolved"
              /\ Len(result[c].value) >= 1
              /\ ResponseText(responses[c][1]) = Json(result[c].value)

C10_Witness ==
  \E c \in Slots :
    /\ ValidCall(c, "describe_table") /\ Completed(c)
    /\ result[c].kind = "resolved" /\ Len(result[c].value) = 0
    /\ events[c] = <<"checkout", "invoke", "release", "respond">>
    /\ IsError(responses[c][1])

\* the `del` call in slot c completes in this step with its backend
\* operation resolved
DelCompletes(c) ==
  /\ ValidCall(c, "del") /\ pc[c] = "Awaiting"
  /\ pc'[c] = "Idle" /\ result'[c].kind = "resolved"

\* C11: a `del` whose backend operation resolves is answered with a Success:
\* with text "OK" when the key held a value, which is removed, and with text
\* "Key not found" when it held none; the key holds no value afterwards, so
\* a `del` of the same key that follows at once reports "Key not found".
C11_DelReportsPresence ==
  [][\A c \in Slots :
       DelCompletes(c)
       => LET k == call[c].args["key"].v
          IN  /\ responses'[c] =
                   <<Success(IF Lookup(store, k).t # "null"
                             THEN <<"OK">> ELSE <<"Key not found">>)>>
              /\ Lookup(store', k) = Null]_vars

\* a `del` of a key that held a value has completed with "OK"
C11_Witness ==
  \E c \in Slots :
    /\ ValidCall(c, "del") /\ Completed(c)
    /\ responses[c] = <<Success(<<"OK">>)>>
    /\ Lookup(store, call[c].args["key"].v) = Null

\* C12: the `t` option stop_container and restart_container hand to the
\* container operation is 10 when the call carries no timeoutSeconds, and the
\* number the call carries otherwise.
C12_TimeoutDefaultsToTen ==
  \A c \in Slots :
    (call[c].valid /\ call[c].tool \in {"stop_container", "restart_container"})
    => /\ Len(invoked[c]) = 1
       /\ invoked[c][1].op =
            (IF call[c].tool = "stop_container"
             THEN "container.stop" ELSE "container.restart")
       /\ invoked[c][1].args[2] =
            (IF Present(call[c].raw["timeoutSeconds"])
             THEN call[c].raw["timeoutSeconds"] ELSE Num(10))

\* a stop_container call without timeoutSeconds has stopped its container
C12_Witness ==
  \E c \in Slots :
    /\ ValidCall(c, "stop_container") /\ Completed(c)
    /\ ~Present(call[c].raw["timeoutSeconds"])
    /\ result[c].kind = "resolved"
    /\ invoked[c][1].args[2] = Num(10)

\* C13: a key-value client whose connection failed ends the process with a
\* non-zero status, and while the process runs a key-value call is in the
\* handler's hands only once the client's connection is open.
C13_NoCallBeforeConnection ==
  /\ redis = "failed" => exit = Exited("key-value", ExitFailure)
  /\ \A c \in Slots :
       (exit = Running /\ call[c].tool \in KeyValueTools /\ pc[c] # "Idle")
       => redis = "ready"

\* C14: a server process that ended on an interruption signal had no client
\* of its pool checked out and no key-value connection open.
C14_HandlesReleasedBeforeExit ==
  exit.how \in {ExitOk, ExitSigint}
  => /\ exit.server = "relational" => checkedOut = 0
     /\ exit.server = "key-value" => redis # "ready"

\* the call in slot c, which awaited its backend, is answered in this step
Answered(c) == pc[c] # "Idle" /\ pc'[c] = "Idle" /\ responses'[c] # <<>>

\* C15: a call is answered only when every call received before it has been
\* answered: the call answered in a step is the earliest received of the
\* calls in flight.
C15_ResponsesInArrivalOrder ==
  [][\A c \in Slots : Answered(c) => inFlight[1] = c]_vars

Rename == <<"r", "e", "n", "a", "m", "e">>

\* the git_branch call in slot c carries an action other than list, create
\* and delete
ActionOutsideEnum(c) ==
  /\ call[c].tool = "git_branch"
  /\ Present(call[c].raw["action"])
  /\ ~(call[c].raw["action"].t = "string"
         /\ call[c].raw["action"].v \in {ActionList, ActionCreate, ActionDelete})

\* C16: a git_branch call whose action is not list, create or delete is
\* answered with a validation Failure and invokes no backend operation; the
\* handler only ever runs with an action of the three.
C16_ActionOutsideEnumRejected ==
  \A c \in Slots :
    /\ ActionOutsideEnum(c)
       => /\ ~call[c].valid
          /\ responses[c] # <<>> /\ IsError(responses[c][1])
          /\ ResponseText(responses[c][1])[1] = "Invalid arguments for tool "
          /\ ResponseText(responses[c][1])[4] = "action"
          /\ invoked[c] = <<>> /\ events[c] = <<"respond">>
    /\ ValidCall(c, "git_branch")
       => call[c].args["action"].v \in {ActionList, ActionCreate, ActionDelete}

\* git_branch called with action "rename" has been answered
C16_Witness ==
  \E c \in Slots :
    /\ ActionOutsideEnum(c) /\ call[c].raw["action"] = Str(Rename)
    /\ Completed(c)
    /\ IsError(responses[c][1])

\* the call in slot c was stopped by validation, by the safety gate or by
\* the branchName check
StoppedBeforeExecuting(c) ==
  \/ ~call[c].valid
  \/ ValidCall(c, "query") /\ ~allowWrite[c]
       /\ ~BeginsWithSelect(call[c].args["sql"].v)
  \/ ValidCall(c, "git_branch")
       /\ call[c].args["action"].v \in {ActionCreate, ActionDelete}
       /\ ~Truthy(call[c].args["branchName"])

\* the call in slot c is executing or has executed: it awaits its backend
\* operation or the operation has settled; a relational call, once it has
\* obtained its pool client
ReachedExecuting(c) ==
  /\ call[c].valid
  /\ IF call[c].tool \in RelationalTools
     THEN pc[c] = "Querying" \/ "checkout" \in Range(events[c])
     ELSE pc[c] = "Awaiting" \/ result[c].kind # "none"

\* C17: a call invokes at most one backend operation: exactly one once it
\* executes, whether the operation then resolves or rejects, and none when
\* validation, the gate or the branchName check stopped it; git_diff,
\* git_push and git_pull invoke the one of their two alternatives that the
\* arguments select.
C17_OneBackendOperation ==
  \A c \in Slots :
    /\ Len(invoked[c]) <= 1
    /\ Count(events[c], "invoke") = Len(invoked[c])
    /\ ReachedExecuting(c) => Len(invoked[c]) = 1
    /\ StoppedBeforeExecuting(c) => invoked[c] = <<>>
    /\ (ValidCall(c, "git_diff") /\ invoked[c] # <<>>)
       => invoked[c][1] =
            [op |-> "git.diff",
             args |-> IF call[c].args["cached"] = Bool(TRUE)
                      THEN <<Str(<<"--cached">>)>> ELSE <<>>]
    /\ \A t \in {"push", "pull"} :
         (ValidCall(c, "git_" \o t) /\ invoked[c] # <<>>)
         => invoked[c][1] =
              [op |-> "git." \o t,
               args |-> IF call[c].args["branch"] \in {Absent, Str(<<>>)}
                        THEN <<call[c].args["remote"]>>
                        ELSE <<call[c].args["remote"], call[c].args["branch"]>>]

\* a git_push whose push was rejected has been answered, the push invoked
\* once
C17_Witness ==
  \E c \in Slots :
    /\ ValidCall(c, "git_push") /\ Completed(c)
    /\ result[c].kind = "rejected"
    /\ Len(invoked[c]) = 1
    /\ events[c] = <<"invoke", "respond">>

\* the relational call in slot c ended because pool.connect() rejected
CheckoutFailed(c) ==
  /\ call[c].valid /\ call[c].tool \in RelationalTools /\ Completed(c)
  /\ result[c].kind = "rejected"
  /\ "checkout" \notin Range(events[c])

\* C18: a relational call whose pool.connect() rejected is answered with one
\* Failure whose text ends with the rejection's error; no query was invoked
\* and no client released for it. No call releases more clients than it
\* checked out, and the pool's count of checked-out clients is never
\* negative.
C18_CheckoutFailureReleasesNothing ==
  /\ checkedOut >= 0
  /\ \A c \in Slots :
       /\ Count(events[c], "release") <= Count(events[c], "checkout")
       /\ CheckoutFailed(c)
          => /\ Len(responses[c]) = 1 /\ IsError(responses[c][1])
             /\ ResponseText(responses[c][1]) =
                  << CASE call[c].tool = "query" -> "Error executing query: "
                       [] call[c].tool = "list_tables" -> "Error listing tables: "
                       [] call[c].tool = "describe_table" ->
                            "Error describing table: ",
                     result[c].error >>
             /\ invoked[c] = <<>>
             /\ events[c] = <<"respond">>

\* a query call has ended on a rejected pool.connect() while the call in
\* another slot holds a client
C18_Witness ==
  \E c, d \in Slots :
    /\ CheckoutFailed(c) /\ call[c].tool = "query"
    /\ pc[d] = "Querying"
    /\ checkedOut = 1

NullString == Str(<<"n", "u", "l", "l">>)

\* the `get` call in slot c has completed, its backend operation resolved
GetAnswered(c) ==
  /\ ValidCall(c, "get") /\ Completed(c)
  /\ result[c].kind = "resolved"

\* C19: a `get` of a key that holds no value and a `get` of a key that holds
\* the string "null" are answered with the same response: the Success whose
\* text is the four characters n, u, l, l.
C19_AbsentReadsAsNullString ==
  \A c \in Slots :
    GetAnswered(c)
    => LET held == Lookup(store, call[c].args["key"].v)
       IN  /\ result[c].value = held
           /\ held \in {Null, NullString}
              => responses[c] = <<Success(<<"n", "u", "l", "l">>)>>

\* a `get` of a key that holds the string "null" has been answered
C19_Witness ==
  \E c \in Slots :
    /\ GetAnswered(c)
    /\ Lookup(store, call[c].args["key"].v) = NullString
    /\ ResponseText(responses[c][1]) = <<"n", "u", "l", "l">>

\* (the other store state: the key holds no value)
C19_WitnessAbsent ==
  \E c \in Slots :
    /\ GetAnswered(c)
    /\ Lookup(store, call[c].args["key"].v) = Null
    /\ ResponseText(responses[c][1]) = <<"n", "u", "l", "l">>

\* the git_branch call in slot c asks to create or delete a branch and
\* names it with the empty string
EmptyBranchName(c) ==
  /\ ValidCall(c, "git_branch")
  /\ call[c].args["action"].v \in {ActionCreate, ActionDelete}
  /\ call[c].raw["branchName"] = Str(<<>>)

\* C20: git_branch create or delete with the empty string for branchName is
\* answered as if branchName were absent, with the "branchName is required"
\* Failure of its action, and invokes no backend operation; a branch is
\* created or deleted only under a non-empty name.
C20_EmptyBranchNameIsMissing ==
  \A c \in Slots :
    /\ EmptyBranchName(c)
       => /\ pc[c] = "Idle"
          /\ responses[c] =
               <<Failure(<<IF call[c].args["action"].v = ActionCreate
                           THEN "Error: branchName is required for create action."
                           ELSE "Error: branchName is required for delete action.">>)>>
          /\ invoked[c] = <<>>
          /\ events[c] = <<"respond">>
    /\ \A i \in DOMAIN invoked[c] :
         invoked[c][i].op \in {"git.checkoutLocalBranch", "git.deleteLocalBranch"}
         => /\ invoked[c][i].args[1].t = "string"
            /\ Len(invoked[c][i].args[1].v) > 0

\* git_branch delete with the empty string for branchName has been answered
C20_Witness ==
  \E c \in Slots :
    /\ EmptyBranchName(c) /\ call[c].args["action"].v = ActionDelete
    /\ Completed(c)
    /\ IsError(responses[c][1])

====
